---- MODULE Spec2Model ----
(***************************************************************************)
(* Scan orchestration and result classification of PhoneGuardianPro.py:    *)
(* the stdout classifier, the busy-retry policy and the two scan flows     *)
(* (scan_all_modules, scan_module_by_module).                              *)
(*                                                                         *)
(* Captured text is modelled as real character strings; the classifier's   *)
(* substring and regular-expression tests are computed on them character   *)
(* by character, as Python's `in` and re.search compute them.              *)
(***************************************************************************)
EXTENDS Integers, Sequences, FiniteSets, TLC

VARIABLES
    mode,       \* "all" (scan_all_modules) or "bymod" (scan_module_by_module)
    mvt,        \* find_mvt_bin() finds the scanner binary
    adb,        \* find_adb_bin() finds the transport binary
    listing,    \* the module names `mvt-android check-adb --list-modules` prints
    mods,       \* local mods of scan_module_by_module: the discovered module list
    pc,         \* position in the running function
    idx,        \* loop index of scan_module_by_module (1-based, as enumerate(mods, 1))
    rc,         \* local rc of the scan function (exit code of the last run_cmd)
    out,        \* local out (captured text of the last run_cmd)
    defs,       \* local defs
    status,     \* local status
    reason,     \* local reason
    outcomes,   \* local outcomes: List[ModuleOutcome]
    ready,      \* value returned by the last adb_ensure_ready() call (the callers discard it)
    attempts,   \* history: the <<rc, out>> of every scanner invocation of the current check
    summary,    \* directory: the contents write_summary wrote to summary.txt, in order
    now,        \* time.time(), in tenths of a second since the run began
    before,     \* local before: the start of the window of new_files_since
    files,      \* the output directory: file name -> [text, readable, mtime, writer]
    reads,      \* the <<rc, out>> of `adb shell getprop <key>`, for every property key
    props,      \* local props of the scan function: what get_device_props() returned
    runs,       \* two runs of a scan function: run -> its position
    outdir,     \* two runs: run -> local outdir, as the stamp that names the directory
    dirs,       \* two runs: REPORTS_DIR, stamp of a directory -> the <<run, file>> written
    er_max,     \* adb_ensure_ready alone: its parameter max_attempts
    er_attempt, \* adb_ensure_ready alone: its loop variable attempt
    cmds        \* adb_ensure_ready alone: the <<adb command, exit code>> it has run

vars == <<mode, mvt, adb, listing, mods, pc, idx, rc, out, defs, status, reason,
          outcomes, ready, attempts, summary, now, before, files, reads, props,
          runs, outdir, dirs, er_max, er_attempt, cmds>>

(***************************************************************************)
(* Bounds of the model.                                                    *)
(***************************************************************************)
\* longest captured text of the classifier specification, in fragments
MaxFrags == 2
\* longest discovered module list
MaxMods == 2
\* most files in the output directory of the hit-counting specification
MaxFiles == 2
\* last clock value of the two-run specification, in tenths of a second
MaxClock == 20

\* def adb_ensure_ready(max_attempts: int = 2)
DEFAULT_MAX_ATTEMPTS == 2

(***************************************************************************)
(* Strings: str.lower(), `sub in s`, and the pieces of re needed.          *)
(***************************************************************************)
UpperChars == "ABCDEFGHIJKLMNOPQRSTUVWXYZ"
LowerChars == "abcdefghijklmnopqrstuvwxyz"

CharAt(s, i) == SubSeq(s, i, i)

LowerChar(c) ==
    IF \E k \in 1..Len(UpperChars) : CharAt(UpperChars, k) = c
    THEN CharAt(LowerChars, CHOOSE k \in 1..Len(UpperChars) : CharAt(UpperChars, k) = c)
    ELSE c

RECURSIVE lower(_)
lower(s) ==
    IF s = "" THEN ""
    ELSE LowerChar(CharAt(s, 1)) \o lower(SubSeq(s, 2, Len(s)))

\* s[i:i+len(lit)] == lit
MatchAt(s, i, lit) ==
    /\ i >= 1
    /\ i + Len(lit) - 1 <= Len(s)
    /\ SubSeq(s, i, i + Len(lit) - 1) = lit

\* lit in s
Contains(s, lit) == \E i \in 1..(Len(s) + 1) : MatchAt(s, i, lit)

\* \w of re, on text already lower-cased
IsWordChar(c) ==
    \/ \E k \in 1..Len(LowerChars) : CharAt(LowerChars, k) = c
    \/ c \in {"0", "1", "2", "3", "4", "5", "6", "7", "8", "9", "_"}

IsWordAt(s, i) == i >= 1 /\ i <= Len(s) /\ IsWordChar(CharAt(s, i))

\* \b of re between s[i-1] and s[i] (1-based i in 1..Len(s)+1)
WordBoundary(s, i) == IsWordAt(s, i - 1) # IsWordAt(s, i)

IsSpace(c) == c \in {" ", "\n", "\t", "\r"}

IsDigit(c) == c \in {"0", "1", "2", "3", "4", "5", "6", "7", "8", "9"}

DigitValue(c) ==
    CASE c = "0" -> 0 [] c = "1" -> 1 [] c = "2" -> 2 [] c = "3" -> 3 [] c = "4" -> 4
      [] c = "5" -> 5 [] c = "6" -> 6 [] c = "7" -> 7 [] c = "8" -> 8 [] c = "9" -> 9

\* first index >= i whose character is not white space (Len(s)+1 at the end): \s*
RECURSIVE SkipSpaces(_, _)
SkipSpaces(s, i) ==
    IF i <= Len(s) /\ IsSpace(CharAt(s, i)) THEN SkipSpaces(s, i + 1) ELSE i

\* first index >= i whose character is not a digit: the greedy \d+
RECURSIVE SkipDigits(_, _)
SkipDigits(s, i) ==
    IF i <= Len(s) /\ IsDigit(CharAt(s, i)) THEN SkipDigits(s, i + 1) ELSE i

\* int() of the digit string s[i..j-1]
RECURSIVE IntOf(_, _, _)
IntOf(s, i, j) ==
    IF j <= i THEN 0 ELSE IntOf(s, i, j - 1) * 10 + DigitValue(CharAt(s, j - 1))

(***************************************************************************)
(* Hit parsing / status.                                                   *)
(***************************************************************************)
\* the reasons classify_stdout returns (the source's dash is written "-" here)
BUSY_REASON == "ADB busy; run 'adb kill-server' and 'adb start-server'."
UNAUTHORIZED_REASON == "Device unauthorized - unlock phone and accept RSA fingerprint."
OFFLINE_REASON == "Device offline - reconnect cable and ensure USB debugging is enabled."
PERMISSION_REASON == "not rooted/no permission"
ERROR_REASON == "unexpected tool error"

\* re.search(r"Loaded a total of\s*(\d+)\s*unique indicators", stdout, re.I) matching at i
DefsMatchAt(s, i) ==
    LET b == SkipSpaces(s, i + Len("loaded a total of"))
        c == SkipDigits(s, b)
    IN  /\ MatchAt(s, i, "loaded a total of")
        /\ c > b
        /\ MatchAt(s, SkipSpaces(s, c), "unique indicators")

parse_indicator_defs(stdout) ==
    LET s == lower(stdout)
        I == {i \in 1..Len(s) : DefsMatchAt(s, i)}
    IN  IF I = {} THEN 0
        ELSE LET i == CHOOSE k \in I : \A j \in I : k <= j
                 b == SkipSpaces(s, i + Len("loaded a total of"))
             IN  IntOf(s, b, SkipDigits(s, b))

\* the tests of classify_stdout, each on s = stdout.lower()
HasBusy(s) == Contains(s, "device is busy")

HasUnauthorized(s) == Contains(s, "unauthorized")

HasOffline(s) == Contains(s, "device offline")

HasPermission(s) ==
    \/ Contains(s, "permission denied")
    \/ Contains(s, "not permitted")
    \/ Contains(s, "root")
    \/ Contains(s, "access denied")
    \/ Contains(s, "no such table: history")

HasError(s) ==
    \/ Contains(s, "error:")
    \/ Contains(s, "traceback")
    \/ Contains(s, "exception")
    \/ Contains(s, "failed")
    \/ Contains(s, "critical")

\* r"\bmatch|indicator hit|suspicious|ioc\b": the \b's bind to the first and last alternative
HasHit(s) ==
    \E i \in 1..Len(s) :
        \/ WordBoundary(s, i) /\ MatchAt(s, i, "match")
        \/ MatchAt(s, i, "indicator hit")
        \/ MatchAt(s, i, "suspicious")
        \/ MatchAt(s, i, "ioc") /\ WordBoundary(s, i + 3)

\* classify_stdout with the generic-error and hit tests before the others
classify_stdout_error_first(stdout) ==
    LET s == lower(stdout)
    IN  IF HasError(s) THEN <<"FAILED", ERROR_REASON>>
        ELSE IF HasHit(s) THEN <<"HITS", "">>
        ELSE IF HasBusy(s) THEN <<"FAILED", BUSY_REASON>>
        ELSE IF HasUnauthorized(s) THEN <<"FAILED", UNAUTHORIZED_REASON>>
        ELSE IF HasOffline(s) THEN <<"FAILED", OFFLINE_REASON>>
        ELSE IF HasPermission(s) THEN <<"SKIPPED", PERMISSION_REASON>>
        ELSE <<"CLEAN", "">>

\* classify_stdout with the hit test before the generic-error test
classify_stdout_hit_before_error(stdout) ==
    LET s == lower(stdout)
    IN  IF HasBusy(s) THEN <<"FAILED", BUSY_REASON>>
        ELSE IF HasUnauthorized(s) THEN <<"FAILED", UNAUTHORIZED_REASON>>
        ELSE IF HasOffline(s) THEN <<"FAILED", OFFLINE_REASON>>
        ELSE IF HasPermission(s) THEN <<"SKIPPED", PERMISSION_REASON>>
        ELSE IF HasHit(s) THEN <<"HITS", "">>
        ELSE IF HasError(s) THEN <<"FAILED", ERROR_REASON>>
        ELSE <<"CLEAN", "">>

\* classify_stdout with the generic-error test before the permission test
classify_stdout_error_before_permission(stdout) ==
    LET s == lower(stdout)
    IN  IF HasBusy(s) THEN <<"FAILED", BUSY_REASON>>
        ELSE IF HasUnauthorized(s) THEN <<"FAILED", UNAUTHORIZED_REASON>>
        ELSE IF HasOffline(s) THEN <<"FAILED", OFFLINE_REASON>>
        ELSE IF HasError(s) THEN <<"FAILED", ERROR_REASON>>
        ELSE IF HasPermission(s) THEN <<"SKIPPED", PERMISSION_REASON>>
        ELSE IF HasHit(s) THEN <<"HITS", "">>
        ELSE <<"CLEAN", "">>

classify_stdout(stdout) ==
    LET s == lower(stdout)
    IN  IF HasBusy(s) THEN <<"FAILED", BUSY_REASON>>
        ELSE IF HasUnauthorized(s) THEN <<"FAILED", UNAUTHORIZED_REASON>>
        ELSE IF HasOffline(s) THEN <<"FAILED", OFFLINE_REASON>>
        ELSE IF HasPermission(s) THEN <<"SKIPPED", PERMISSION_REASON>>
        ELSE IF HasError(s) THEN <<"FAILED", ERROR_REASON>>
        ELSE IF HasHit(s) THEN <<"HITS", "">>
        ELSE <<"CLEAN", "">>

\* _is_adb_busy that takes every FAILED for busy
_is_adb_busy_any_failed(st, rsn) == st = "FAILED"

_is_adb_busy(st, rsn) ==
    LET s == lower(st \o " " \o rsn)
    IN  (st = "FAILED") /\ (Contains(s, "busy") \/ Contains(s, "device is busy"))

\* _is_adb_busy on every status and reason classify_stdout gives, tabulated once
Statuses == {"", "CLEAN", "HITS", "SKIPPED", "FAILED"}

Reasons ==
    {"", BUSY_REASON, UNAUTHORIZED_REASON, OFFLINE_REASON, PERMISSION_REASON, ERROR_REASON}

BusyTable == [st \in Statuses, rsn \in Reasons |-> _is_adb_busy(st, rsn)]

(***************************************************************************)
(* Hit counting over artifact files.                                       *)
(***************************************************************************)
\* the keys of HIT_KEYWORDS
HIT_KEYWORDS == {"domain", "url", "ip", "file", "package", "process"}

\* length of the match of HIT_KEYWORDS[k] that starts at s[i] (0: none), on lower-cased
\* text; a \b binds to the alternative it is written in
KeywordMatchLen(k, s, i) ==
    CASE k = "domain" ->   \* r"\bdomain|hostname|dns\b"
            IF WordBoundary(s, i) /\ MatchAt(s, i, "domain") THEN 6
            ELSE IF MatchAt(s, i, "hostname") THEN 8
            ELSE IF MatchAt(s, i, "dns") /\ WordBoundary(s, i + 3) THEN 3
            ELSE 0
      [] k = "url" ->      \* r"\burl|https?://\b"
            IF WordBoundary(s, i) /\ MatchAt(s, i, "url") THEN 3
            ELSE IF MatchAt(s, i, "https://") /\ WordBoundary(s, i + 8) THEN 8
            ELSE IF MatchAt(s, i, "http://") /\ WordBoundary(s, i + 7) THEN 7
            ELSE 0
      [] k = "ip" ->       \* r"\bip(v4|v6)?\b"
            IF ~(WordBoundary(s, i) /\ MatchAt(s, i, "ip")) THEN 0
            ELSE IF (MatchAt(s, i + 2, "v4") \/ MatchAt(s, i + 2, "v6"))
                    /\ WordBoundary(s, i + 4) THEN 4
            ELSE IF WordBoundary(s, i + 2) THEN 2
            ELSE 0
      [] k = "file" ->     \* r"\bfile|path\b"
            IF WordBoundary(s, i) /\ MatchAt(s, i, "file") THEN 4
            ELSE IF MatchAt(s, i, "path") /\ WordBoundary(s, i + 4) THEN 4
            ELSE 0
      [] k = "package" ->  \* r"\bpackage|pkg\b"
            IF WordBoundary(s, i) /\ MatchAt(s, i, "package") THEN 7
            ELSE IF MatchAt(s, i, "pkg") /\ WordBoundary(s, i + 3) THEN 3
            ELSE 0
      [] k = "process" ->  \* r"\bprocess|ps\b"
            IF WordBoundary(s, i) /\ MatchAt(s, i, "process") THEN 7
            ELSE IF MatchAt(s, i, "ps") /\ WordBoundary(s, i + 2) THEN 2
            ELSE 0

\* len(re.findall(pat, text, re.I)) from position i on: leftmost matches, not overlapping
RECURSIVE CountKeyword(_, _, _)
CountKeyword(k, s, i) ==
    IF i > Len(s) THEN 0
    ELSE LET n == KeywordMatchLen(k, s, i)
         IN  IF n > 0 THEN 1 + CountKeyword(k, s, i + n) ELSE CountKeyword(k, s, i + 1)

\* re.search(pat, row_text, re.I)
SearchKeyword(k, s) == \E i \in 1..Len(s) : KeywordMatchLen(k, s, i) > 0

\* length of the match of r'"match(ed)?_?(indicator)?"\s*:\s*(true|"true"|1)' at s[i]
MarkerMatchLen(s, i) ==
    LET a == i + 6                                              \* after "match
        b == IF MatchAt(s, a, "ed") THEN a + 2 ELSE a           \* (ed)?
        c == IF MatchAt(s, b, "_") THEN b + 1 ELSE b            \* _?
        d == IF MatchAt(s, c, "indicator") THEN c + 9 ELSE c    \* (indicator)?
        e == SkipSpaces(s, d + 1)                               \* " \s*
        f == SkipSpaces(s, e + 1)                               \* : \s*
    IN  IF ~(MatchAt(s, i, "\"match") /\ MatchAt(s, d, "\"") /\ MatchAt(s, e, ":")) THEN 0
        ELSE IF MatchAt(s, f, "true") THEN f + 4 - i
        ELSE IF MatchAt(s, f, "\"true\"") THEN f + 6 - i
        ELSE IF MatchAt(s, f, "1") THEN f + 1 - i
        ELSE 0

RECURSIVE CountMarkers(_, _)
CountMarkers(s, i) ==
    IF i > Len(s) THEN 0
    ELSE LET n == MarkerMatchLen(s, i)
         IN  IF n > 0 THEN 1 + CountMarkers(s, i + n) ELSE CountMarkers(s, i + 1)

\* index of the first c in s from i on, 0 when there is none
RECURSIVE IndexOf(_, _, _)
IndexOf(s, c, i) ==
    IF i > Len(s) THEN 0 ELSE IF CharAt(s, i) = c THEN i ELSE IndexOf(s, c, i + 1)

\* the lines of a text, as csv.reader cuts records that hold no quoted field: a final
\* line end opens no further record, an empty line is a record
RECURSIVE SplitLines(_)
SplitLines(s) ==
    IF s = "" THEN <<>>
    ELSE LET n == IndexOf(s, "\n", 1)
         IN  IF n = 0 THEN <<s>>
             ELSE <<SubSeq(s, 1, n - 1)>> \o SplitLines(SubSeq(s, n + 1, Len(s)))

RECURSIVE CountChar(_, _)
CountChar(s, c) ==
    IF s = "" THEN 0
    ELSE (IF CharAt(s, 1) = c THEN 1 ELSE 0) + CountChar(SubSeq(s, 2, Len(s)), c)

RECURSIVE ReplaceChar(_, _, _)
ReplaceChar(s, c, r) ==
    IF s = "" THEN ""
    ELSE (IF CharAt(s, 1) = c THEN r ELSE CharAt(s, 1)) \o ReplaceChar(SubSeq(s, 2, Len(s)), c, r)

\* csv.Sniffer().sniff(sample).delimiter for texts without quotes, or csv.excel's ","
\* when the sniffer raises: the first of the sniffer's preferred delimiters that occurs
\* equally often, and at least once, on every line
SniffDelimiter(text) ==
    LET rows == SplitLines(text)
        Fits(c) == /\ rows # <<>>
                   /\ CountChar(rows[1], c) > 0
                   /\ \A n \in 1..Len(rows) : CountChar(rows[n], c) = CountChar(rows[1], c)
    IN  IF Fits(",") THEN ","
        ELSE IF Fits("\t") THEN "\t"
        ELSE IF Fits(";") THEN ";"
        ELSE IF Fits(" ") THEN " "
        ELSE IF Fits(":") THEN ":"
        ELSE ","

\* p.suffix.lower() of a file name
RECURSIVE LastDot(_, _)
LastDot(name, i) ==
    IF i < 1 THEN 0 ELSE IF CharAt(name, i) = "." THEN i ELSE LastDot(name, i - 1)

Suffix(name) ==
    LET n == LastDot(name, Len(name))
    IN  IF n <= 1 THEN "" ELSE lower(SubSeq(name, n, Len(name)))

\* FileHits whose tabular total grows with every category a row matches
FileHits_total_per_category(f) ==
    LET text == IF f.readable THEN f.text ELSE ""
        s == lower(text)
        rows == SplitLines(s)
        delim == SniffDelimiter(s)
        row_text(n) == ReplaceChar(rows[n], delim, " ")
        matched(k) == Cardinality({n \in 2..Len(rows) : SearchKeyword(k, row_text(n))})
    IN  IF Suffix(f.name) = ".json"
        THEN <<CountMarkers(s, 1), [k \in HIT_KEYWORDS |-> CountKeyword(k, s, 1)]>>
        ELSE IF Suffix(f.name) \in {".csv", ".tsv"}
        THEN IF ~f.readable THEN <<0, [k \in HIT_KEYWORDS |-> 0]>>
             ELSE <<matched("domain") + matched("url") + matched("ip") + matched("file")
                        + matched("package") + matched("process"),
                    [k \in HIT_KEYWORDS |-> matched(k)]>>
        ELSE <<0, [k \in HIT_KEYWORDS |-> CountKeyword(k, s, 1)]>>

\* FileHits whose total grows with the keyword matches of a file of any other type
FileHits_other_adds_total(f) ==
    LET text == IF f.readable THEN f.text ELSE ""
        s == lower(text)
        rows == SplitLines(s)
        delim == SniffDelimiter(s)
        row_text(n) == ReplaceChar(rows[n], delim, " ")
    IN  IF Suffix(f.name) = ".json"
        THEN <<CountMarkers(s, 1), [k \in HIT_KEYWORDS |-> CountKeyword(k, s, 1)]>>
        ELSE IF Suffix(f.name) \in {".csv", ".tsv"}
        THEN IF ~f.readable THEN <<0, [k \in HIT_KEYWORDS |-> 0]>>
             ELSE <<IF Len(rows) > 1 THEN Len(rows) - 1 ELSE 0,
                    [k \in HIT_KEYWORDS |->
                        Cardinality({n \in 2..Len(rows) : SearchKeyword(k, row_text(n))})]>>
        ELSE <<CountKeyword("domain", s, 1) + CountKeyword("file", s, 1),
               [k \in HIT_KEYWORDS |-> CountKeyword(k, s, 1)]>>

\* FileHits that reads the content of an unreadable file
FileHits_reads_unreadable(f) ==
    LET s == lower(f.text)
        rows == SplitLines(s)
        delim == SniffDelimiter(s)
        row_text(n) == ReplaceChar(rows[n], delim, " ")
    IN  IF Suffix(f.name) = ".json"
        THEN <<CountMarkers(s, 1), [k \in HIT_KEYWORDS |-> CountKeyword(k, s, 1)]>>
        ELSE IF Suffix(f.name) \in {".csv", ".tsv"}
        THEN <<IF Len(rows) > 1 THEN Len(rows) - 1 ELSE 0,
               [k \in HIT_KEYWORDS |->
                   Cardinality({n \in 2..Len(rows) : SearchKeyword(k, row_text(n))})]>>
        ELSE <<0, [k \in HIT_KEYWORDS |-> CountKeyword(k, s, 1)]>>

\* what one file adds in count_hits_in_files: <<to total, to each category>>; a file is
\* [name, text, readable], and reading an unreadable file raises
FileHits(f) ==
    LET text == IF f.readable THEN f.text ELSE ""      \* lines 539-542
        s == lower(text)
        rows == SplitLines(s)
        delim == SniffDelimiter(s)
        row_text(n) == ReplaceChar(rows[n], delim, " ")
    IN  IF Suffix(f.name) = ".json"
        THEN <<CountMarkers(s, 1), [k \in HIT_KEYWORDS |-> CountKeyword(k, s, 1)]>>
        ELSE IF Suffix(f.name) \in {".csv", ".tsv"}
        THEN IF ~f.readable THEN <<0, [k \in HIT_KEYWORDS |-> 0]>>   \* p.open raises
             ELSE <<IF Len(rows) > 1 THEN Len(rows) - 1 ELSE 0,
                    [k \in HIT_KEYWORDS |->
                        Cardinality({n \in 2..Len(rows) : SearchKeyword(k, row_text(n))})]>>
        ELSE <<0, [k \in HIT_KEYWORDS |-> CountKeyword(k, s, 1)]>>


(***************************************************************************)
(* Device properties.                                                      *)
(***************************************************************************)
PROP_KEYS ==
    { "ro.product.manufacturer", "ro.product.model", "ro.build.version.release",
      "ro.build.version.sdk", "ro.build.fingerprint" }

\* what run_cmd returns for one `adb shell getprop <key>`: no device, nothing printed,
\* an unset property (getprop prints an empty line), a value, a padded value
ReadResults ==
    { <<1, "error: no devices/emulators found\n">>,
      <<0, "">>,
      <<0, "\n">>,
      <<0, "Pixel 7\n">>,
      <<0, " 14 \n">> }

\* no property has been read
NoReads == [k \in PROP_KEYS |-> <<0, "">>]

\* last index <= i whose character is not white space (0 when there is none)
RECURSIVE RSkipSpaces(_, _)
RSkipSpaces(s, i) ==
    IF i >= 1 /\ IsSpace(CharAt(s, i)) THEN RSkipSpaces(s, i - 1) ELSE i

\* str.strip()
strip(s) ==
    LET a == SkipSpaces(s, 1)
        b == RSkipSpaces(s, Len(s))
    IN  IF a > b THEN "" ELSE SubSeq(s, a, b)

\* str.splitlines(): the lines of s, cut at "\n" and "\r"; none for the empty string
RECURSIVE splitlines(_)
splitlines(s) ==
    IF s = "" THEN <<>>
    ELSE LET n == IndexOf(s, "\n", 1)
             r == IndexOf(s, "\r", 1)
             cut == IF n = 0 THEN r ELSE IF r = 0 THEN n ELSE IF r < n THEN r ELSE n
         IN  IF cut = 0 THEN <<s>>
             ELSE <<SubSeq(s, 1, cut - 1)>> \o splitlines(SubSeq(s, cut + 1, Len(s)))

\* line 636 on one read result r = <<rc, out>>, reached when rc == 0:
\* (out or "").strip().splitlines()[0] if out else "" ; [0] of an empty list raises
\* IndexError
PropOfRead(r) ==
    LET lines == splitlines(strip(r[2]))
    IN  IF r[1] # 0 THEN [raised |-> FALSE, value |-> ""]
        ELSE IF r[2] = "" THEN [raised |-> FALSE, value |-> ""]
        ELSE IF lines = <<>> THEN [raised |-> TRUE, value |-> ""]
        ELSE [raised |-> FALSE, value |-> lines[1]]

\* PropOfRead on every read result, tabulated once
PropTable == [r \in ReadResults |-> PropOfRead(r)]

\* get_device_props(), given the result rd[k] of every read it would make: the mapping
\* it returns, or raised when line 636 raises for some key (nothing is returned then)
get_device_props(rd) ==
    IF ~adb THEN [raised |-> FALSE, props |-> [k \in PROP_KEYS |-> ""]]
    ELSE IF \E k \in PROP_KEYS : PropTable[rd[k]].raised
    THEN [raised |-> TRUE, props |-> <<>>]
    ELSE [raised |-> FALSE, props |-> [k \in PROP_KEYS |-> PropTable[rd[k]].value]]

(***************************************************************************)
(* get_device_props alone: every property's read result is drawn, and the  *)
(* function is called as lines 705 and 752 call it.                        *)
(***************************************************************************)
InitProps ==
    /\ adb \in BOOLEAN
    /\ reads \in [PROP_KEYS -> ReadResults]
    /\ pc = "props"
    /\ mode = "none" /\ mvt = TRUE /\ listing = <<>> /\ mods = <<>>
    /\ idx = 0 /\ rc = 0 /\ out = "" /\ defs = 0 /\ status = "" /\ reason = ""
    /\ outcomes = <<>> /\ ready = "uncalled" /\ attempts = <<>> /\ summary = <<>>
    /\ now = 0 /\ before = 0 /\ files = <<>> /\ props = <<>>
    /\ runs = <<>> /\ outdir = <<>> /\ dirs = <<>>
    /\ er_max = DEFAULT_MAX_ATTEMPTS /\ er_attempt = 0 /\ cmds = <<>>

\* props = get_device_props(): the local is assigned when the call returns
GetProps ==
    /\ pc = "props"
    /\ LET got == get_device_props(reads)
       IN  IF got.raised
           THEN pc' = "crashed" /\ UNCHANGED props
           ELSE pc' = "props_done" /\ props' = got.props
    /\ UNCHANGED <<mode, mvt, adb, listing, mods, idx, rc, out, defs, status, reason,
                   outcomes, ready, attempts, summary, now, before, files, reads,
                   runs, outdir, dirs,
                   er_max, er_attempt, cmds>>

NextProps == GetProps

SpecProps == InitProps /\ [][NextProps]_vars

(***************************************************************************)
(* Captured texts.                                                         *)
(***************************************************************************)
\* pieces of scanner output; a captured text of the classifier specification is a
\* concatenation of up to MaxFrags of them, in any order
Fragments ==
    { "Error: ", "Device is busy. Try again.", "unauthorized", "device offline",
      "permission denied for history db", "Loaded a total of 42 unique indicators\n",
      "No matches found.", "suspicious", "IOC", "ok" }

RECURSIVE Concat(_)
Concat(fs) == IF fs = <<>> THEN "" ELSE Head(fs) \o Concat(Tail(fs))

Texts == { Concat(fs) : fs \in UNION { [1..k -> Fragments] : k \in 0..MaxFrags } }

(***************************************************************************)
(* The classifier alone: a captured text is drawn and classified, as       *)
(* lines 725-726 of scan_module_by_module do with the text of run_cmd.     *)
(***************************************************************************)
InitClassify ==
    /\ out \in Texts
    /\ pc = "classify"
    /\ mode = "none" /\ mvt = TRUE /\ adb = TRUE /\ listing = <<>> /\ mods = <<>>
    /\ idx = 0 /\ rc = 0 /\ defs = 0 /\ status = "" /\ reason = ""
    /\ outcomes = <<>> /\ ready = "uncalled" /\ attempts = <<>> /\ summary = <<>>
    /\ now = 0 /\ before = 0 /\ files = <<>>
    /\ reads = NoReads /\ props = <<>>
    /\ runs = <<>> /\ outdir = <<>> /\ dirs = <<>>
    /\ er_max = DEFAULT_MAX_ATTEMPTS /\ er_attempt = 0 /\ cmds = <<>>

Classify ==
    /\ pc = "classify"
    /\ defs' = parse_indicator_defs(out)
    /\ status' = classify_stdout(out)[1]
    /\ reason' = classify_stdout(out)[2]
    /\ pc' = "classified"
    /\ UNCHANGED <<mode, mvt, adb, listing, mods, idx, rc, out, outcomes, ready, attempts,
                   summary, now, before, files,
                   reads, props,
                   runs, outdir, dirs,
                   er_max, er_attempt, cmds>>

NextClassify == Classify

SpecClassify == InitClassify /\ [][NextClassify]_vars

(***************************************************************************)
(* The environment of a run: what the external commands can answer.        *)
(***************************************************************************)
\* module names, in the order of the sample listing of selftest()
SampleModules == <<"ChromeHistory", "Dumpsys", "Packages", "Processes">>

\* the listings the scanner can print: the first k sample modules
ModLists == { SubSeq(SampleModules, 1, k) : k \in 0..MaxMods }

\* captured texts of one `mvt-android check-adb` run
ScannerOutputs ==
    { "",
      "Error: Device is busy. Try again.",
      "Loaded a total of 7 unique indicators\nError: Device is busy. Try again.",
      "error: device unauthorized.",
      "error: device offline",
      "permission denied for history db",
      "Traceback (most recent call last):",
      "Loaded a total of 42 unique indicators\n",
      "Loaded a total of 42 unique indicators\nNo matches found.",
      "Loaded a total of 42 unique indicators\nFound suspicious domain" }

\* what a scanner that exits with code 1 has printed; "" is also what run_cmd returns
\* with code 1 when subprocess.run raises (timeout, not startable)
FailedOutputs ==
    { "", "Error: Device is busy. Try again.", "Traceback (most recent call last):" }

\* what is captured of a scanner that is killed while it runs
PartialOutputs == { "Loaded a total of 42 unique indicators\n" }

\* run_cmd(cmd) for the scanner, <<rc, out>>: the process ends by itself (exit code 0 or
\* 1, text captured), it is killed by a signal (negative return code, what it had
\* written so far), or subprocess.run raises and run_cmd returns (1, "")
run_cmd ==
    (({0} \X ScannerOutputs) \cup ({1} \X FailedOutputs)) \cup ({-9} \X PartialOutputs)

\* lines 725-726 (and 731-732, 683-684, 690-691) on every text run_cmd can capture,
\* <<defs, status, reason>>, tabulated once
Scanned ==
    [ t \in { r[2] : r \in run_cmd } |->
        <<parse_indicator_defs(t), classify_stdout(t)[1], classify_stdout(t)[2]>> ]

\* exit codes of the `adb shell echo ok` probe of adb_ensure_ready
ProbeCodes == {0, 1}

\* artifact files the scanner writes into the output directory
DetectedJson ==
    [ name |-> "chrome_history_detected.json", readable |-> TRUE,
      text |-> "{\"domain\": \"suspicious.example.com\", \"matched_indicator\": true}" ]

CommandLog ==
    [ name |-> "command.log", readable |-> TRUE,
      text |-> "INFO [mvt] Saved file to path\n" ]

\* further files of an output directory: tabular, record-oriented, other, unreadable
TabularFiles ==
    { [ name |-> "timeline.csv", readable |-> TRUE,
        text |-> "timestamp,event,data\n2024,dns,suspicious.example.com\n2024,file,/data/path\n" ],
      [ name |-> "multi.csv", readable |-> TRUE,
        text |-> "name,kind\nhostname url,process file\n" ],
      [ name |-> "repeat.csv", readable |-> TRUE,
        text |-> "a;b\nfile file file;path\nps;ps\n" ],
      [ name |-> "header_only.csv", readable |-> TRUE,
        text |-> "domain,url,ip\n" ],
      [ name |-> "empty.csv", readable |-> TRUE, text |-> "" ],
      [ name |-> "apps.TSV", readable |-> TRUE,
        text |-> "package\tdir\ncom.x.app\t/data/app\npkg\t/system\n" ] }

RecordFiles ==
    { DetectedJson,
      [ name |-> "two.json", readable |-> TRUE,
        text |-> "[{\"url\": \"http://a.example\", \"matched\": 1}, {\"ip\": \"10.0.0.1\", \"process\": \"sh\", \"match\": \"true\"}]" ],
      [ name |-> "keywords.json", readable |-> TRUE,
        text |-> "{\"domain\": \"a\", \"url\": \"b\", \"file\": \"c\", \"matched\": false}" ],
      [ name |-> "null.json", readable |-> TRUE,
        text |-> "{\"process\": \"ps\", \"matched_indicator\": null}" ],
      [ name |-> "count.json", readable |-> TRUE,
        text |-> "{\"package\": \"com.x\", \"match\": 12}" ],
      [ name |-> "data.JSON", readable |-> TRUE,
        text |-> "{\n  \"Matched_Indicator\" : TRUE\n}" ] }

OtherFiles ==
    { CommandLog,
      [ name |-> "notes.txt", readable |-> TRUE,
        text |-> "{\"matched\": true}\ndomain,url\nhostname,https://x\n" ],
      [ name |-> "README", readable |-> TRUE, text |-> "dns\nps\n" ],
      [ name |-> "rows.csv.bak", readable |-> TRUE, text |-> "a,b\n1,2\n" ] }

UnreadableFiles ==
    { [ name |-> "locked.json", readable |-> FALSE,
        text |-> "{\"domain\": \"x\", \"matched\": true}" ],
      [ name |-> "locked.csv", readable |-> FALSE, text |-> "a,b\nfile,2\n" ],
      [ name |-> "locked.log", readable |-> FALSE, text |-> "file path\n" ] }

Artifacts == ((TabularFiles \cup RecordFiles) \cup OtherFiles) \cup UnreadableFiles

\* the files one scanner invocation writes: none, or its log and a detection file
Batches == { {}, {CommandLog, DetectedJson} }

\* FileHits on every artifact, tabulated once
HitsTable == [ f \in Artifacts |-> FileHits(f) ]

\* Clock values are tenths of a second.
\* time one scanner invocation takes
ScanTimes == {1}

(***************************************************************************)
(* Scanning flows.                                                         *)
(***************************************************************************)
\* before - 0.5 of new_files_since, time.sleep(0.1) of adb_quick_reset, time.sleep(0.2)
\* and time.sleep(0.5) of adb_ensure_ready, in tenths of a second
MTIME_TOLERANCE == 5
QUICK_RESET_SLEEP == 1
ENSURE_READY_SLEEP == 2
PROBE_FAILED_SLEEP == 5

\* the files of the output directory whose st_mtime >= before - 0.5
new_files_since(t) == { n \in DOMAIN files : files[n].mtime >= t - MTIME_TOLERANCE }

RECURSIVE SumTotal(_)
SumTotal(paths) ==
    IF paths = {} THEN 0
    ELSE LET n == CHOOSE x \in paths : TRUE
         IN  HitsTable[[name |-> n, text |-> files[n].text,
                        readable |-> files[n].readable]][1] + SumTotal(paths \ {n})

RECURSIVE SumType(_, _)
SumType(paths, k) ==
    IF paths = {} THEN 0
    ELSE LET n == CHOOSE x \in paths : TRUE
         IN  HitsTable[[name |-> n, text |-> files[n].text,
                        readable |-> files[n].readable]][2][k] + SumType(paths \ {n}, k)

\* count_hits_in_files(paths): <<total, per_type>>; per_type holds the categories that
\* were counted at least once (`if c:`)
count_hits_in_files(paths) ==
    << SumTotal(paths),
       [ k \in { c \in HIT_KEYWORDS : SumType(paths, c) > 0 } |-> SumType(paths, k) ] >>

\* how long adb_quick_reset() takes: nothing without the binary (line 591), else its
\* sleep (the three adb commands themselves take next to nothing)
QuickResetTimes == IF ~adb THEN {0} ELSE {QUICK_RESET_SLEEP}

\* the cycles adb_ensure_ready(max_attempts) makes, given each cycle's probe exit code
EnsureReadyCycles(max_attempts, probes) ==
    IF ~adb THEN 0
    ELSE IF \E attempt \in 1..max_attempts : probes[attempt] = 0
    THEN CHOOSE attempt \in 1..max_attempts :
            /\ probes[attempt] = 0
            /\ \A earlier \in 1..(attempt - 1) : probes[earlier] # 0
    ELSE max_attempts

\* adb_ensure_ready(max_attempts): "true" at the first cycle whose probe exits 0, "false"
\* after max_attempts failed probes or when the transport binary is not found
adb_ensure_ready(max_attempts, probes) ==
    IF ~adb THEN "false"
    ELSE IF \E attempt \in 1..max_attempts : probes[attempt] = 0 THEN "true"
    ELSE "false"

\* the sleeps of adb_ensure_ready: 0.2 s in every cycle, 0.5 s after every failed probe
EnsureReadyTime(max_attempts, probes) ==
    LET cycles == EnsureReadyCycles(max_attempts, probes)
        failed == IF adb_ensure_ready(max_attempts, probes) = "true"
                  THEN cycles - 1 ELSE cycles
    IN  cycles * ENSURE_READY_SLEEP + failed * PROBE_FAILED_SLEEP

mvt_list_modules == IF ~mvt THEN <<>> ELSE listing

ModuleOutcome(module, st, rsn, d, hits, by_type) ==
    [ module |-> module, status |-> st, reason |-> rsn, defs |-> d,
      hits_total |-> hits, hit_types |-> by_type ]

\* the getprop results of one report: every property read gives a value, no device
\* answers, or no property is set on the device
ReportReads ==
    { [k \in PROP_KEYS |-> r] :
        r \in { <<0, "Pixel 7\n">>, <<1, "error: no devices/emulators found\n">>, <<0, "\n">> } }

\* lines 640-643 for one category t: by_type[t] = by_type.get(t, 0) + n over the outcomes
\* whose hit_types holds t
RECURSIVE SumOutcomes(_, _)
SumOutcomes(ocs, t) ==
    IF ocs = <<>> THEN 0
    ELSE (IF t \in DOMAIN Head(ocs).hit_types THEN Head(ocs).hit_types[t] ELSE 0)
         + SumOutcomes(Tail(ocs), t)

\* write_summary whose block sums the outcomes of status HITS only
write_summary_hits_only(ocs, pr) ==
    LET hits == SelectSeq(ocs, LAMBDA oc : oc.status = "HITS")
    IN  [ props |-> pr,
          modules |-> [i \in 1..Len(ocs) |-> <<ocs[i].module, ocs[i].status>>],
          by_type |-> [ t \in UNION { DOMAIN hits[i].hit_types : i \in 1..Len(hits) } |->
                          SumOutcomes(hits, t) ] ]

\* write_summary(outdir, outcomes, props): what it writes to summary.txt: the device
\* info, one line per outcome, and the block "Hit counts by type"
write_summary(ocs, pr) ==
    [ props |-> pr,
      modules |-> [i \in 1..Len(ocs) |-> <<ocs[i].module, ocs[i].status>>],
      by_type |-> [ t \in UNION { DOMAIN ocs[i].hit_types : i \in 1..Len(ocs) } |->
                      SumOutcomes(ocs, t) ] ]

\* the output directory after the scanner wrote batch at time t; writer notes the loop
\* index of the check whose invocation wrote the file (0 in all-modules mode)
Written(batch, t) ==
    [ n \in DOMAIN files \cup { f.name : f \in batch } |->
        IF \E f \in batch : f.name = n
        THEN LET f == CHOOSE g \in batch : g.name = n
             IN  [text |-> f.text, readable |-> f.readable, mtime |-> t, writer |-> idx]
        ELSE files[n] ]

\* rc, out = run_cmd([mvt, "check-adb", ...]) started at time t0, then
\* defs = parse_indicator_defs(out) and status, reason = classify_stdout(out)
RunScanner(t0) ==
    \E r \in run_cmd, d \in ScanTimes, batch \in Batches :
        /\ rc' = r[1]
        /\ out' = r[2]
        /\ attempts' = Append(attempts, r)
        /\ now' = t0 + d
        /\ files' = Written(batch, now')
        /\ defs' = Scanned[out'][1]
        /\ status' = Scanned[out'][2]
        /\ reason' = Scanned[out'][3]

(***************************************************************************)
(* Hit counting alone: the output directory holds some files, all written  *)
(* since before, and lines 733-736 (692-693 and 707) count them into an    *)
(* outcome.                                                                *)
(***************************************************************************)
\* the directory that holds the files fs
Directory(fs) ==
    [ n \in { f.name : f \in fs } |->
        LET f == CHOOSE g \in fs : g.name = n
        IN  [text |-> f.text, readable |-> f.readable, mtime |-> 0, writer |-> 0] ]

InitHits ==
    /\ files \in { Directory(fs) : fs \in { s \in SUBSET Artifacts : Cardinality(s) <= MaxFiles } }
    /\ pc = "count"
    /\ mode = "none" /\ mvt = TRUE /\ adb = TRUE /\ listing = <<>> /\ mods = <<>>
    /\ idx = 0 /\ rc = 0 /\ out = "" /\ defs = 0 /\ status = "CLEAN" /\ reason = ""
    /\ outcomes = <<>> /\ ready = "uncalled" /\ attempts = <<>> /\ summary = <<>>
    /\ now = 0 /\ before = 0 /\ reads = NoReads /\ props = <<>>
    /\ runs = <<>> /\ outdir = <<>> /\ dirs = <<>>
    /\ er_max = DEFAULT_MAX_ATTEMPTS /\ er_attempt = 0 /\ cmds = <<>>

CountHits ==
    /\ pc = "count"
    /\ LET new == new_files_since(before)
           counted == count_hits_in_files(new)
       IN  outcomes' = <<ModuleOutcome("ALL", status, reason, defs, counted[1], counted[2])>>
    /\ pc' = "counted"
    /\ UNCHANGED <<mode, mvt, adb, listing, mods, idx, rc, out, defs, status, reason,
                   ready, attempts, summary, now, before, files, reads, props,
                   runs, outdir, dirs,
                   er_max, er_attempt, cmds>>

NextHits == CountHits

SpecHits == InitHits /\ [][NextHits]_vars

InitRun ==
    /\ mode \in {"all", "bymod"}
    /\ mvt \in BOOLEAN
    /\ adb \in BOOLEAN
    /\ listing \in ModLists
    /\ pc = "start"
    /\ mods = <<>> /\ idx = 0 /\ rc = 0 /\ out = "" /\ defs = 0
    /\ status = "" /\ reason = "" /\ outcomes = <<>>
    /\ ready = "uncalled" /\ attempts = <<>> /\ summary = <<>>
    /\ now = 0 /\ before = 0 /\ files = <<>>
    /\ reads = NoReads /\ props = <<>>
    /\ runs = <<>> /\ outdir = <<>> /\ dirs = <<>>
    /\ er_max = DEFAULT_MAX_ATTEMPTS /\ er_attempt = 0 /\ cmds = <<>>

\* ---- scan_module_by_module ----

\* lines 712-719: the pre-flight test, the output directory, the empty outcome list
BM_Preflight ==
    /\ pc = "start" /\ mode = "bymod"
    /\ mods' = mvt_list_modules
    /\ IF mods' = <<>> \/ ~mvt
       THEN pc' = "aborted" /\ UNCHANGED idx
       ELSE pc' = "bm_reset" /\ idx' = 1
    /\ outcomes' = <<>>
    /\ UNCHANGED <<mode, mvt, adb, listing, rc, out, defs, status, reason, ready,
                   attempts, summary, now, before, files,
                   reads, props,
                   runs, outdir, dirs,
                   er_max, er_attempt, cmds>>

\* lines 720-723: the next module of the loop; adb_quick_reset() (no return value);
\* before = time.time()
BM_ResetBefore ==
    /\ pc = "bm_reset"
    /\ \E t \in QuickResetTimes : now' = now + t
    /\ before' = now'
    /\ attempts' = <<>>
    /\ pc' = "bm_invoke"
    /\ UNCHANGED <<mode, mvt, adb, listing, mods, idx, rc, out, defs, status, reason,
                   outcomes, ready, summary, files,
                   reads, props,
                   runs, outdir, dirs,
                   er_max, er_attempt, cmds>>

\* lines 724-726: the first invocation of the scanner for mods[idx], parsed and classified
BM_Invoke ==
    /\ pc = "bm_invoke"
    /\ RunScanner(now)
    /\ pc' = "bm_busy"
    /\ UNCHANGED <<mode, mvt, adb, listing, mods, idx, outcomes, ready, summary,
                   before,
                   reads, props,
                   runs, outdir, dirs,
                   er_max, er_attempt, cmds>>

\* BM_Retry that invokes the scanner again but keeps the first parse and classification
BM_Retry_keeps_first ==
    /\ pc = "bm_busy"
    /\ BusyTable[status, reason]
    /\ \E t \in QuickResetTimes, probes \in [1..DEFAULT_MAX_ATTEMPTS -> ProbeCodes],
          r \in run_cmd, d \in ScanTimes, batch \in Batches :
        /\ ready' = adb_ensure_ready(DEFAULT_MAX_ATTEMPTS, probes)
        /\ rc' = r[1]
        /\ out' = r[2]
        /\ attempts' = Append(attempts, r)
        /\ now' = now + t + EnsureReadyTime(DEFAULT_MAX_ATTEMPTS, probes) + d
        /\ files' = Written(batch, now')
    /\ pc' = "bm_collect"
    /\ UNCHANGED <<mode, mvt, adb, listing, mods, idx, defs, status, reason, outcomes,
                   summary, before,
                   reads, props,
                   runs, outdir, dirs,
                   er_max, er_attempt, cmds>>

\* BM_Retry as a loop: the busy test is made again after the retry
BM_Retry_again ==
    /\ pc = "bm_busy"
    /\ BusyTable[status, reason]
    /\ \E t \in QuickResetTimes, probes \in [1..DEFAULT_MAX_ATTEMPTS -> ProbeCodes] :
        /\ ready' = adb_ensure_ready(DEFAULT_MAX_ATTEMPTS, probes)
        /\ RunScanner(now + t + EnsureReadyTime(DEFAULT_MAX_ATTEMPTS, probes))
    /\ pc' = IF Len(attempts') < 3 THEN "bm_busy" ELSE "bm_collect"
    /\ UNCHANGED <<mode, mvt, adb, listing, mods, idx, outcomes, summary, before,
                   reads, props,
                   runs, outdir, dirs,
                   er_max, er_attempt, cmds>>

\* BM_Retry that takes before again after the reset of the retry
BM_Retry_recaptures_before ==
    /\ pc = "bm_busy"
    /\ BusyTable[status, reason]
    /\ \E t \in QuickResetTimes, probes \in [1..DEFAULT_MAX_ATTEMPTS -> ProbeCodes] :
        /\ ready' = adb_ensure_ready(DEFAULT_MAX_ATTEMPTS, probes)
        /\ before' = now + t + EnsureReadyTime(DEFAULT_MAX_ATTEMPTS, probes)
        /\ RunScanner(now + t + EnsureReadyTime(DEFAULT_MAX_ATTEMPTS, probes))
    /\ pc' = "bm_collect"
    /\ UNCHANGED <<mode, mvt, adb, listing, mods, idx, outcomes, summary,
                   reads, props, runs, outdir, dirs,
                   er_max, er_attempt, cmds>>

\* lines 727-732: busy: adb_quick_reset(), adb_ensure_ready() (its result discarded), and
\* the scanner invoked, parsed and classified once more
BM_Retry ==
    /\ pc = "bm_busy"
    /\ BusyTable[status, reason]
    /\ \E t \in QuickResetTimes, probes \in [1..DEFAULT_MAX_ATTEMPTS -> ProbeCodes] :
        /\ ready' = adb_ensure_ready(DEFAULT_MAX_ATTEMPTS, probes)
        /\ RunScanner(now + t + EnsureReadyTime(DEFAULT_MAX_ATTEMPTS, probes))
    /\ pc' = "bm_collect"
    /\ UNCHANGED <<mode, mvt, adb, listing, mods, idx, outcomes, summary, before,
                   reads, props,
                   runs, outdir, dirs,
                   er_max, er_attempt, cmds>>

\* BM_NoRetry that starts the next module while the outcome of this one is not built
BM_NoRetry_starts_next ==
    /\ pc = "bm_busy"
    /\ ~BusyTable[status, reason]
    /\ IF idx < Len(mods)
       THEN pc' = "bm_reset" /\ idx' = idx + 1
       ELSE pc' = "bm_collect" /\ UNCHANGED idx
    /\ UNCHANGED <<mode, mvt, adb, listing, mods, rc, out, defs, status, reason,
                   outcomes, ready, attempts, summary, now, before, files,
                   reads, props, runs, outdir, dirs,
                   er_max, er_attempt, cmds>>

\* line 727, the test false
BM_NoRetry ==
    /\ pc = "bm_busy"
    /\ ~BusyTable[status, reason]
    /\ pc' = "bm_collect"
    /\ UNCHANGED <<mode, mvt, adb, listing, mods, idx, rc, out, defs, status, reason,
                   outcomes, ready, attempts, summary, now, before, files,
                   reads, props,
                   runs, outdir, dirs,
                   er_max, er_attempt, cmds>>

\* BM_Collect that writes the summary after every module
BM_Collect_writes_summary ==
    /\ pc = "bm_collect"
    /\ LET new == new_files_since(before)
           counted == count_hits_in_files(new)
       IN  outcomes' = Append(outcomes, ModuleOutcome(mods[idx], status, reason, defs,
                                                      counted[1], counted[2]))
    /\ summary' = Append(summary, write_summary(outcomes', props))
    /\ IF idx < Len(mods)
       THEN pc' = "bm_reset" /\ idx' = idx + 1
       ELSE pc' = "bm_report" /\ UNCHANGED idx
    /\ UNCHANGED <<mode, mvt, adb, listing, mods, rc, out, defs, status, reason, ready,
                   attempts, now, before, files, reads, props,
                   runs, outdir, dirs,
                   er_max, er_attempt, cmds>>

\* BM_Collect that leaves the loop at the first FAILED module
BM_Collect_stops_on_failed ==
    /\ pc = "bm_collect"
    /\ LET new == new_files_since(before)
           counted == count_hits_in_files(new)
       IN  outcomes' = Append(outcomes, ModuleOutcome(mods[idx], status, reason, defs,
                                                      counted[1], counted[2]))
    /\ IF idx < Len(mods) /\ status # "FAILED"
       THEN pc' = "bm_reset" /\ idx' = idx + 1
       ELSE pc' = "bm_report" /\ UNCHANGED idx
    /\ UNCHANGED <<mode, mvt, adb, listing, mods, rc, out, defs, status, reason, ready,
                   attempts, summary, now, before, files,
                   reads, props,
                   runs, outdir, dirs,
                   er_max, er_attempt, cmds>>

\* lines 733-736 and the loop's step: the files written since before, their hits, the
\* outcome appended whatever its status; then the next module, or the report
BM_Collect ==
    /\ pc = "bm_collect"
    /\ LET new == new_files_since(before)
           counted == count_hits_in_files(new)
       IN  outcomes' = Append(outcomes, ModuleOutcome(mods[idx], status, reason, defs,
                                                      counted[1], counted[2]))
    /\ IF idx < Len(mods)
       THEN pc' = "bm_reset" /\ idx' = idx + 1
       ELSE pc' = "bm_report" /\ UNCHANGED idx
    /\ UNCHANGED <<mode, mvt, adb, listing, mods, rc, out, defs, status, reason, ready,
                   attempts, summary, now, before, files,
                   reads, props,
                   runs, outdir, dirs,
                   er_max, er_attempt, cmds>>

\* lines 752-753: props = get_device_props(), which may raise, and then
\* write_summary(outdir, outcomes, props)
BM_Report ==
    /\ pc = "bm_report"
    /\ \E rd \in (IF adb THEN ReportReads ELSE {reads}) :
        /\ reads' = rd
        /\ LET got == get_device_props(rd)
           IN  IF got.raised
               THEN pc' = "crashed" /\ UNCHANGED <<props, summary>>
               ELSE /\ props' = got.props
                    /\ summary' = Append(summary, write_summary(outcomes, props'))
                    /\ pc' = "done"
    /\ UNCHANGED <<mode, mvt, adb, listing, mods, idx, rc, out, defs, status, reason,
                   outcomes, ready, attempts, now, before, files,
                   runs, outdir, dirs,
                   er_max, er_attempt, cmds>>

\* ---- scan_all_modules ----

\* AM_Preflight that goes on without the scanner binary
AM_Preflight_skips_test ==
    /\ pc = "start" /\ mode = "all"
    /\ pc' = "am_ready"
    /\ UNCHANGED <<mode, mvt, adb, listing, mods, idx, rc, out, defs, status, reason,
                   outcomes, ready, attempts, summary, now, before, files, reads, props,
                   runs, outdir, dirs,
                   er_max, er_attempt, cmds>>

\* lines 672-677: the pre-flight test and the output directory
AM_Preflight ==
    /\ pc = "start" /\ mode = "all"
    /\ pc' = IF ~mvt THEN "aborted" ELSE "am_ready"
    /\ UNCHANGED <<mode, mvt, adb, listing, mods, idx, rc, out, defs, status, reason,
                   outcomes, ready, attempts, summary, now, before, files,
                   reads, props,
                   runs, outdir, dirs,
                   er_max, er_attempt, cmds>>

\* lines 678-680: adb_quick_reset(), adb_ensure_ready() (its result discarded),
\* before = time.time()
AM_Ready ==
    /\ pc = "am_ready"
    /\ \E t \in QuickResetTimes, probes \in [1..DEFAULT_MAX_ATTEMPTS -> ProbeCodes] :
        /\ ready' = adb_ensure_ready(DEFAULT_MAX_ATTEMPTS, probes)
        /\ now' = now + t + EnsureReadyTime(DEFAULT_MAX_ATTEMPTS, probes)
    /\ before' = now'
    /\ attempts' = <<>>
    /\ pc' = "am_invoke"
    /\ UNCHANGED <<mode, mvt, adb, listing, mods, idx, rc, out, defs, status, reason,
                   outcomes, summary, files,
                   reads, props,
                   runs, outdir, dirs,
                   er_max, er_attempt, cmds>>

\* lines 682-684: the invocation of the scanner for all modules, parsed and classified
AM_Invoke ==
    /\ pc = "am_invoke"
    /\ RunScanner(now)
    /\ pc' = "am_busy"
    /\ UNCHANGED <<mode, mvt, adb, listing, mods, idx, outcomes, ready, summary,
                   before,
                   reads, props,
                   runs, outdir, dirs,
                   er_max, er_attempt, cmds>>

\* lines 686-691: the retry, once, when busy
AM_Retry ==
    /\ pc = "am_busy"
    /\ BusyTable[status, reason]
    /\ \E t \in QuickResetTimes, probes \in [1..DEFAULT_MAX_ATTEMPTS -> ProbeCodes] :
        /\ ready' = adb_ensure_ready(DEFAULT_MAX_ATTEMPTS, probes)
        /\ RunScanner(now + t + EnsureReadyTime(DEFAULT_MAX_ATTEMPTS, probes))
    /\ pc' = "am_report"
    /\ UNCHANGED <<mode, mvt, adb, listing, mods, idx, outcomes, summary, before,
                   reads, props,
                   runs, outdir, dirs,
                   er_max, er_attempt, cmds>>

\* line 686, the test false
AM_NoRetry ==
    /\ pc = "am_busy"
    /\ ~BusyTable[status, reason]
    /\ pc' = "am_report"
    /\ UNCHANGED <<mode, mvt, adb, listing, mods, idx, rc, out, defs, status, reason,
                   outcomes, ready, attempts, summary, now, before, files,
                   reads, props,
                   runs, outdir, dirs,
                   er_max, er_attempt, cmds>>

\* lines 692-693 and 706-708: the files written since before and their hits;
\* props = get_device_props(), which may raise; then the single outcome "ALL" and
\* write_summary(outdir, outcomes, props)
AM_Report ==
    /\ pc = "am_report"
    /\ \E rd \in (IF adb THEN ReportReads ELSE {reads}) :
        /\ reads' = rd
        /\ LET new == new_files_since(before)
               counted == count_hits_in_files(new)
               got == get_device_props(rd)
           IN  IF got.raised
               THEN pc' = "crashed" /\ UNCHANGED <<props, outcomes, summary>>
               ELSE /\ props' = got.props
                    /\ outcomes' = <<ModuleOutcome("ALL", status, reason, defs,
                                                   counted[1], counted[2])>>
                    /\ summary' = Append(summary, write_summary(outcomes', props'))
                    /\ pc' = "done"
    /\ UNCHANGED <<mode, mvt, adb, listing, mods, idx, rc, out, defs, status, reason,
                   ready, attempts, now, before, files,
                   runs, outdir, dirs,
                   er_max, er_attempt, cmds>>

Next ==
    \/ BM_Preflight \/ BM_ResetBefore \/ BM_Invoke \/ BM_Retry \/ BM_NoRetry
    \/ BM_Collect \/ BM_Report
    \/ AM_Preflight \/ AM_Ready \/ AM_Invoke \/ AM_Retry \/ AM_NoRetry \/ AM_Report

Init == InitRun

Spec == Init /\ [][Next]_vars

\* the scan functions are straight-line code and a bounded loop: whenever a step can be
\* taken it is taken, each external command returning
SpecLive == Spec /\ WF_vars(Next)

(***************************************************************************)
(* Two runs and their output directories: each run names its directory by  *)
(* the clock (lines 676-677, 717-718), the scanner writes into it (lines   *)
(* 682, 724) and write_summary writes summary.txt into it (lines 708,      *)
(* 753).  The runs are two processes, or one after the other.              *)
(***************************************************************************)
Runs == {1, 2}

\* _nowstamp() at clock value t: datetime.now().strftime("%Y%m%d_%H%M%S"), the time cut
\* to the whole second
_nowstamp(t) == t \div 10

\* outdir.mkdir(parents=True, exist_ok=True): a directory that exists is left as it is
mkdir(d) == IF d \in DOMAIN dirs THEN dirs ELSE [e \in DOMAIN dirs \cup {d} |->
                                                    IF e = d THEN {} ELSE dirs[e]]

\* directory d after run r wrote the file name into it
WriteInto(d, r, name) == [dirs EXCEPT ![d] = @ \cup {<<r, name>>}]

\* how far the clock moves between two steps
ClockSteps == {5}

InitDirs ==
    /\ runs = [r \in Runs |-> "start"]
    /\ outdir = [r \in Runs |-> -1]
    /\ dirs = <<>>
    /\ now = 0
    /\ pc = "runs"
    /\ mode = "none" /\ mvt = TRUE /\ adb = TRUE /\ listing = <<>> /\ mods = <<>>
    /\ idx = 0 /\ rc = 0 /\ out = "" /\ defs = 0 /\ status = "" /\ reason = ""
    /\ outcomes = <<>> /\ ready = "uncalled" /\ attempts = <<>> /\ summary = <<>>
    /\ before = 0 /\ files = <<>> /\ reads = NoReads /\ props = <<>>
    /\ er_max = DEFAULT_MAX_ATTEMPTS /\ er_attempt = 0 /\ cmds = <<>>

\* time passes
Tick ==
    /\ now < MaxClock
    /\ \E d \in ClockSteps : now' = now + d
    /\ UNCHANGED <<mode, mvt, adb, listing, mods, pc, idx, rc, out, defs, status, reason,
                   outcomes, ready, attempts, summary, before, files, reads, props,
                   runs, outdir, dirs,
                   er_max, er_attempt, cmds>>

\* lines 676-677 (717-718): outdir = REPORTS_DIR / f"android_{_nowstamp()}" and
\* outdir.mkdir(parents=True, exist_ok=True)
RunMakeDir ==
    \E r \in Runs :
        /\ runs[r] = "start"
        /\ outdir' = [outdir EXCEPT ![r] = _nowstamp(now)]
        /\ dirs' = mkdir(outdir'[r])
        /\ runs' = [runs EXCEPT ![r] = "scan"]
        /\ UNCHANGED <<mode, mvt, adb, listing, mods, pc, idx, rc, out, defs, status,
                       reason, outcomes, ready, attempts, summary, now, before, files,
                       reads, props,
                   er_max, er_attempt, cmds>>

\* lines 682 (724): the scanner, given --output outdir, writes its artifacts there
RunScan ==
    \E r \in Runs :
        /\ runs[r] = "scan"
        /\ dirs' = WriteInto(outdir[r], r, "command.log")
        /\ runs' = [runs EXCEPT ![r] = "report"]
        /\ UNCHANGED <<mode, mvt, adb, listing, mods, pc, idx, rc, out, defs, status,
                       reason, outcomes, ready, attempts, summary, now, before, files,
                       reads, props, outdir,
                   er_max, er_attempt, cmds>>

\* lines 708 (753): write_summary writes outdir / "summary.txt"
RunSummary ==
    \E r \in Runs :
        /\ runs[r] = "report"
        /\ dirs' = WriteInto(outdir[r], r, "summary.txt")
        /\ runs' = [runs EXCEPT ![r] = "done"]
        /\ UNCHANGED <<mode, mvt, adb, listing, mods, pc, idx, rc, out, defs, status,
                       reason, outcomes, ready, attempts, summary, now, before, files,
                       reads, props, outdir,
                   er_max, er_attempt, cmds>>

NextDirs == Tick \/ RunMakeDir \/ RunScan \/ RunSummary

SpecDirs == InitDirs /\ [][NextDirs]_vars

(***************************************************************************)
(* adb_ensure_ready on its own, one step per pass of its loop.  cmds is    *)
(* the sequence of <<adb arguments, exit code>> it has run so far.         *)
(***************************************************************************)
MaxAttempts == 4

\* run_cmd returns the exit code of the command, or 1 when it could not be run
ShellCodes == {0, 1, 255}

\* lines 606-616: the seven commands of one pass, the shell probe last
CycleCommands(probe) ==
    << <<"devices -l", 0>>, <<"kill-server", 0>>, <<"start-server", 0>>,
       <<"wait-for-device", 0>>, <<"reconnect", 0>>, <<"usb", 0>>,
       <<"shell echo ok", probe>> >>

InitReady ==
    /\ adb \in BOOLEAN
    /\ er_max \in 0..MaxAttempts
    /\ er_attempt = 0
    /\ cmds = <<>>
    /\ ready = "uncalled"
    /\ pc = "er_start"
    /\ now = 0
    /\ runs = [r \in Runs |-> "start"] /\ outdir = [r \in Runs |-> -1] /\ dirs = <<>>
    /\ mode = "none" /\ mvt = TRUE /\ listing = <<>> /\ mods = <<>>
    /\ idx = 0 /\ rc = 0 /\ out = "" /\ defs = 0 /\ status = "" /\ reason = ""
    /\ outcomes = <<>> /\ attempts = <<>> /\ summary = <<>>
    /\ before = 0 /\ files = <<>> /\ reads = NoReads /\ props = <<>>

\* lines 601-603: adb = find_adb_bin(); if not adb: return False
ER_Enter ==
    /\ pc = "er_start"
    /\ IF ~adb
       THEN ready' = "false" /\ pc' = "er_done"
       ELSE ready' = ready /\ pc' = "er_loop"
    /\ UNCHANGED <<mode, mvt, adb, listing, mods, idx, rc, out, defs, status, reason,
                   outcomes, attempts, summary, now, before, files, reads, props,
                   runs, outdir, dirs, er_max, er_attempt, cmds>>

\* the loop without the test of the probe's exit code
ER_Cycle_ignores_probe ==
    /\ pc = "er_loop"
    /\ er_attempt < er_max
    /\ \E probe \in ShellCodes :
        /\ er_attempt' = er_attempt + 1
        /\ cmds' = cmds \o CycleCommands(probe)
        /\ rc' = probe
        /\ now' = now + ENSURE_READY_SLEEP + PROBE_FAILED_SLEEP
        /\ ready' = ready /\ pc' = "er_loop"
    /\ UNCHANGED <<mode, mvt, adb, listing, mods, idx, out, defs, status, reason,
                   outcomes, attempts, summary, before, files, reads, props,
                   runs, outdir, dirs, er_max>>

\* lines 604-619: one pass of "for attempt in range(1, max_attempts + 1)"
ER_Cycle ==
    /\ pc = "er_loop"
    /\ er_attempt < er_max
    /\ \E probe \in ShellCodes :
        /\ er_attempt' = er_attempt + 1
        /\ cmds' = cmds \o CycleCommands(probe)
        /\ rc' = probe
        /\ IF probe = 0
           THEN /\ now' = now + ENSURE_READY_SLEEP
                /\ ready' = "true" /\ pc' = "er_done"
           ELSE /\ now' = now + ENSURE_READY_SLEEP + PROBE_FAILED_SLEEP
                /\ ready' = ready /\ pc' = "er_loop"
    /\ UNCHANGED <<mode, mvt, adb, listing, mods, idx, out, defs, status, reason,
                   outcomes, attempts, summary, before, files, reads, props,
                   runs, outdir, dirs, er_max>>

\* line 620: the range is exhausted, return False
ER_Exhausted ==
    /\ pc = "er_loop"
    /\ er_attempt >= er_max
    /\ ready' = "false" /\ pc' = "er_done"
    /\ UNCHANGED <<mode, mvt, adb, listing, mods, idx, rc, out, defs, status, reason,
                   outcomes, attempts, summary, now, before, files, reads, props,
                   runs, outdir, dirs, er_max, er_attempt, cmds>>

NextReady == ER_Enter \/ ER_Cycle \/ ER_Exhausted

SpecReady == InitReady /\ [][NextReady]_vars

(***************************************************************************)
(* Vocabulary of the properties.                                           *)
(***************************************************************************)
\* a module check has ended: its outcome is the last of the outcome list, and attempts
\* holds the scanner invocations that check made
CheckEnded ==
    \/ mode = "bymod" /\ pc \in {"bm_reset", "bm_report", "done"} /\ outcomes # <<>>
    \/ mode = "all" /\ pc = "done"

\* the retry decision of the current check has been taken
RetryDecided ==
    \/ CheckEnded
    \/ pc \in {"bm_collect", "am_report"}

LastOutcome == outcomes[Len(outcomes)]

\* the k-th invocation of the check was classified FAILED with the busy reason
AttemptIsBusy(k) ==
    /\ Len(attempts) >= k
    /\ Scanned[attempts[k][2]][2] = "FAILED"
    /\ Scanned[attempts[k][2]][3] = BUSY_REASON

AttemptStatus(k) == Scanned[attempts[k][2]][2]

\* the transport is unavailable: no binary, or the last readiness probe gave up
TransportUnavailable == ~adb \/ ready = "false"

ScenarioC == "Loaded a total of 42 unique indicators\nNo matches found."

(***************************************************************************)
(* C1: in both scan modes a check invokes the scanner a second time if and *)
(* only if its first invocation classified as FAILED with the busy reason; *)
(* no check makes more than two invocations; any other FAILED, or a        *)
(* SKIPPED, first result causes no second invocation.                      *)
(***************************************************************************)
C1_RetryIffBusy ==
    /\ Len(attempts) <= 2
    /\ RetryDecided => (Len(attempts) = 2 <=> AttemptIsBusy(1))
    /\ (RetryDecided /\ Len(attempts) >= 1 /\ AttemptStatus(1) = "SKIPPED")
          => Len(attempts) = 1

\* the first module was busy twice, the second failed as unauthorized and was not retried
C1_Witness ==
    /\ mode = "bymod" /\ pc = "bm_report" /\ Len(outcomes) = 2
    /\ outcomes[1].reason = BUSY_REASON
    /\ Len(attempts) = 1
    /\ AttemptStatus(1) = "FAILED"
    /\ outcomes[2].reason = UNAUTHORIZED_REASON

(***************************************************************************)
(* C2 (as claimed): when the transport is unavailable (the binary is       *)
(* missing, or the readiness probe gave up), the check makes no scanner    *)
(* invocation and records FAILED, in both modes.                           *)
(***************************************************************************)
C2_UnavailableNoInvocation ==
    /\ (CheckEnded /\ ~adb) => (attempts = <<>> /\ LastOutcome.status = "FAILED")
    /\ (mode = "all" /\ pc = "am_busy" /\ ready = "false") => attempts = <<>>

(***************************************************************************)
(* C3 (as claimed): a scanner invocation that is killed, times out or      *)
(* cannot be started (run_cmd returns a non-zero exit code) is recorded as *)
(* FAILED with the generic tool-error reason, never as CLEAN.              *)
(***************************************************************************)
C3_NonZeroExitIsFailed ==
    (CheckEnded /\ attempts # <<>> /\ attempts[Len(attempts)][1] # 0)
        => (LastOutcome.status = "FAILED" /\ LastOutcome.reason = ERROR_REASON)

(***************************************************************************)
(* C4: classify_stdout returns the outcome of the first rule that matches  *)
(* in the order busy, unauthorized, offline, permission, generic error,    *)
(* hit, and CLEAN with an empty reason when none matches (the empty text   *)
(* included); error and hit markers together give FAILED, not HITS.        *)
(***************************************************************************)
C4_FirstMatchWins ==
    pc = "classified" =>
        LET s == lower(out)
            r == <<status, reason>>
        IN  /\ HasBusy(s) => r = <<"FAILED", BUSY_REASON>>
            /\ (~HasBusy(s) /\ HasUnauthorized(s)) => r = <<"FAILED", UNAUTHORIZED_REASON>>
            /\ (~HasBusy(s) /\ ~HasUnauthorized(s) /\ HasOffline(s))
                  => r = <<"FAILED", OFFLINE_REASON>>
            /\ (~HasBusy(s) /\ ~HasUnauthorized(s) /\ ~HasOffline(s) /\ HasPermission(s))
                  => r = <<"SKIPPED", PERMISSION_REASON>>
            /\ (~HasBusy(s) /\ ~HasUnauthorized(s) /\ ~HasOffline(s) /\ ~HasPermission(s)
                  /\ HasError(s))
                  => r = <<"FAILED", ERROR_REASON>>
            /\ (~HasBusy(s) /\ ~HasUnauthorized(s) /\ ~HasOffline(s) /\ ~HasPermission(s)
                  /\ ~HasError(s) /\ HasHit(s))
                  => r = <<"HITS", "">>
            /\ (~HasBusy(s) /\ ~HasUnauthorized(s) /\ ~HasOffline(s) /\ ~HasPermission(s)
                  /\ ~HasError(s) /\ ~HasHit(s))
                  => r = <<"CLEAN", "">>
            /\ out = "" => r = <<"CLEAN", "">>

\* a text with an error marker and a hit marker, classified FAILED
C4_Witness ==
    /\ pc = "classified"
    /\ HasError(lower(out)) /\ HasHit(lower(out))
    /\ status = "FAILED" /\ reason = ERROR_REASON

(***************************************************************************)
(* C5: every text with the busy marker is classified FAILED with the       *)
(* reason that carries the reset guidance (kill-server, start-server),     *)
(* whatever other markers it contains.                                     *)
(***************************************************************************)
C5_BusyAlwaysFailedWithReset ==
    (pc = "classified" /\ Contains(lower(out), "device is busy"))
        => /\ status = "FAILED"
           /\ Contains(reason, "kill-server")
           /\ Contains(reason, "start-server")

\* the text of selftest(): the busy marker after an error token
C5_Witness ==
    /\ pc = "classified"
    /\ out = "Error: Device is busy. Try again."
    /\ status = "FAILED"

(***************************************************************************)
(* C6 (as claimed): every text with a permission-denial marker is          *)
(* classified SKIPPED.                                                     *)
(***************************************************************************)
C6_PermissionAlwaysSkipped ==
    (pc = "classified" /\ HasPermission(lower(out))) => status = "SKIPPED"

(***************************************************************************)
(* C6 (amended): every text with a permission-denial marker and none of    *)
(* the busy, unauthorized and offline markers is classified SKIPPED, also  *)
(* when an error token is present.                                         *)
(***************************************************************************)
C6_PermissionSkippedUnlessTransport ==
    (/\ pc = "classified"
     /\ HasPermission(lower(out))
     /\ ~HasBusy(lower(out)) /\ ~HasUnauthorized(lower(out)) /\ ~HasOffline(lower(out)))
        => (status = "SKIPPED" /\ reason = PERMISSION_REASON)

\* a permission marker after an error token, classified SKIPPED
C6_Witness ==
    /\ pc = "classified"
    /\ out = "Error: permission denied for history db"
    /\ status = "SKIPPED"

(***************************************************************************)
(* C7 (as claimed): an output that declares 'Loaded a total of N unique    *)
(* indicators' and then reports 'No matches found.' (no other marker) is   *)
(* recorded with indicator-definition count N and status CLEAN.            *)
(***************************************************************************)
C7_NoMatchesIsClean ==
    (CheckEnded /\ attempts # <<>> /\ attempts[Len(attempts)][2] = ScenarioC)
        => (LastOutcome.defs = 42 /\ LastOutcome.status = "CLEAN")

(***************************************************************************)
(* C8: a check whose first invocation classifies as busy makes exactly two *)
(* invocations, and when the second classifies as CLEAN the recorded       *)
(* outcome has the status, reason and indicator-definition count of the    *)
(* second invocation (CLEAN, empty reason), not of the first.              *)
(***************************************************************************)
C8_BusyThenCleanIsClean ==
    (CheckEnded /\ AttemptIsBusy(1))
        => /\ Len(attempts) = 2
           /\ AttemptStatus(2) = "CLEAN"
                 => /\ LastOutcome.status = "CLEAN"
                    /\ LastOutcome.reason = ""
                    /\ LastOutcome.defs = parse_indicator_defs(attempts[2][2])

\* busy with 7 declared indicators, then a clean run that declares 42
C8_Witness ==
    /\ CheckEnded /\ Len(attempts) = 2 /\ AttemptIsBusy(1)
    /\ parse_indicator_defs(attempts[1][2]) = 7
    /\ AttemptStatus(2) = "CLEAN"
    /\ LastOutcome.status = "CLEAN" /\ LastOutcome.defs = 42

(***************************************************************************)
(* C9: in module-by-module mode a check whose two invocations both         *)
(* classify as busy is recorded FAILED with the busy reason after exactly  *)
(* two invocations; there is no third invocation, and the run goes on to   *)
(* the next module (or to the report after the last one).                  *)
(***************************************************************************)
C9_BusyTwiceIsFailed ==
    /\ mode = "bymod" => Len(attempts) <= 2
    /\ (mode = "bymod" /\ CheckEnded /\ AttemptIsBusy(1) /\ AttemptIsBusy(2))
        => /\ Len(attempts) = 2
           /\ LastOutcome.status = "FAILED"
           /\ LastOutcome.reason = BUSY_REASON
           /\ \/ pc = "bm_reset" /\ idx = Len(outcomes) + 1 /\ idx <= Len(mods)
                 /\ ENABLED BM_ResetBefore
              \/ pc \in {"bm_report", "done"} /\ Len(outcomes) = Len(mods)

\* the first of two modules was busy twice and the loop stands at the second module
C9_Witness ==
    /\ mode = "bymod" /\ pc = "bm_reset" /\ idx = 2 /\ Len(mods) = 2
    /\ AttemptIsBusy(1) /\ AttemptIsBusy(2)
    /\ Len(outcomes) = 1
    /\ outcomes[1].module = mods[1]
    /\ outcomes[1].status = "FAILED" /\ outcomes[1].reason = BUSY_REASON

(***************************************************************************)
(* C10: in module-by-module mode the outcome list of a completed run holds *)
(* exactly one ModuleOutcome per discovered module, in discovery order,    *)
(* whatever the statuses; while the loop runs it holds one per module      *)
(* already checked.                                                        *)
(***************************************************************************)
C10_OneOutcomePerModule ==
    mode = "bymod" =>
        /\ \A k \in 1..Len(outcomes) : k <= Len(mods) /\ outcomes[k].module = mods[k]
        /\ pc \in {"bm_report", "done"} => Len(outcomes) = Len(mods)
        /\ pc \in {"bm_reset", "bm_invoke", "bm_busy", "bm_collect"}
              => Len(outcomes) = idx - 1

\* a completed run of two modules: the first FAILED, the second SKIPPED
C10_Witness ==
    /\ mode = "bymod" /\ pc = "done" /\ Len(mods) = 2 /\ Len(outcomes) = 2
    /\ outcomes[1].status = "FAILED"
    /\ outcomes[2].status = "SKIPPED"

(***************************************************************************)
(* C11 (as claimed): get_device_props always returns a mapping with        *)
(* exactly the five property keys, for every combination of read results;  *)
(* a property whose read fails or yields nothing (non-zero exit code,      *)
(* empty or whitespace-only output) is the empty string, the others hold   *)
(* the first line of the stripped value, and no error is raised.           *)
(***************************************************************************)
C11_PropsAlwaysFiveKeys ==
    pc \in {"props_done", "crashed"} =>
        /\ pc = "props_done"
        /\ DOMAIN props = PROP_KEYS
        /\ \A k \in PROP_KEYS :
            /\ (~adb \/ reads[k][1] # 0 \/ strip(reads[k][2]) = "") => props[k] = ""
            /\ (adb /\ reads[k] = <<0, "Pixel 7\n">>) => props[k] = "Pixel 7"
            /\ (adb /\ reads[k] = <<0, " 14 \n">>) => props[k] = "14"

\* the run has passed its pre-flight test
PassedPreflight == pc \in {"bm_reset", "am_ready"}

(***************************************************************************)
(* C12 (as claimed): every run that passes pre-flight eventually writes    *)
(* summary.txt, whatever the scanner and the transport commands print and  *)
(* return, each external command returning.                                *)
(***************************************************************************)
C12_SummaryEventuallyWritten == PassedPreflight ~> (summary # <<>>)

(***************************************************************************)
(* C13: within one run summary.txt is written at most once, and only after *)
(* every module's outcome has been appended (in all-modules mode, after    *)
(* the single outcome is built): the written module lines are those of the *)
(* complete outcome list; once it is written there is no further scanner   *)
(* invocation, no change of the outcome list and no second write.          *)
(***************************************************************************)
C13_SummaryOnceAtEnd ==
    /\ [](/\ Len(summary) <= 1
          /\ summary # <<>> =>
                /\ pc = "done"
                /\ mode = "bymod" => Len(outcomes) = Len(mods)
                /\ mode = "all" => Len(outcomes) = 1
                /\ summary[1].modules
                      = [i \in 1..Len(outcomes) |-> <<outcomes[i].module, outcomes[i].status>>])
    /\ [][summary # <<>> => UNCHANGED <<summary, outcomes, attempts, files>>]_vars

\* a completed run of two modules with its one summary
C13_Witness ==
    /\ mode = "bymod" /\ pc = "done" /\ Len(mods) = 2 /\ Len(outcomes) = 2
    /\ Len(summary) = 1
    /\ Len(summary[1].modules) = 2

\* a pre-flight condition fails: no scanner binary, or no module in the listing
PreflightFails == ~mvt \/ (mode = "bymod" /\ listing = <<>>)

(***************************************************************************)
(* C14: when a pre-flight condition fails (scanner binary not found, or in *)
(* module-by-module mode an empty module list) the run is aborted before   *)
(* any module attempt: no scanner invocation is made, no outcome is        *)
(* recorded, no artifact and no summary is written; no other run aborts.   *)
(***************************************************************************)
C14_PreflightAbort ==
    /\ (PreflightFails /\ pc # "start")
          => /\ pc = "aborted"
             /\ attempts = <<>> /\ outcomes = <<>> /\ summary = <<>> /\ files = <<>>
             /\ ready = "uncalled"
    /\ pc = "aborted" => PreflightFails

\* module-by-module mode, the scanner is there but lists no module: aborted
C14_Witness ==
    /\ pc = "aborted" /\ mode = "bymod" /\ mvt /\ listing = <<>>
    /\ attempts = <<>> /\ outcomes = <<>> /\ summary = <<>>

(***************************************************************************)
(* Vocabulary of the hit-counting properties.                              *)
(***************************************************************************)
Counted == pc = "counted"

IsTabular(n) == Suffix(n) \in {".csv", ".tsv"}

IsRecord(n) == Suffix(n) = ".json"

\* the lines of a text, by its line ends
LineCount(text) ==
    CountChar(text, "\n")
        + (IF text # "" /\ CharAt(text, Len(text)) # "\n" THEN 1 ELSE 0)

\* the rows of a tabular text after its header row
DataRows(text) == IF LineCount(text) > 0 THEN LineCount(text) - 1 ELSE 0

RECURSIVE SumDataRows(_)
SumDataRows(paths) ==
    IF paths = {} THEN 0
    ELSE LET n == CHOOSE x \in paths : TRUE
         IN  DataRows(files[n].text) + SumDataRows(paths \ {n})

(***************************************************************************)
(* C15: over readable tabular (.csv/.tsv) artifacts, count_hits_in_files   *)
(* gives as total exactly the number of data rows after each file's header *)
(* row, however many categories a row matches; a category's count grows by *)
(* at most one per row, so no category count exceeds the total.            *)
(***************************************************************************)
C15_TabularTotalIsDataRows ==
    (Counted /\ \A n \in DOMAIN files : IsTabular(n) /\ files[n].readable)
        => /\ outcomes[1].hits_total = SumDataRows(DOMAIN files)
           /\ \A k \in DOMAIN outcomes[1].hit_types :
                 outcomes[1].hit_types[k] <= outcomes[1].hits_total

\* one data row that matches four categories: total 1, each category 1
C15_Witness ==
    /\ Counted /\ DOMAIN files = {"multi.csv"}
    /\ outcomes[1].hits_total = 1
    /\ outcomes[1].hit_types = [k \in {"domain", "url", "file", "process"} |-> 1]

\* the pieces of s between the occurrences of the character c
RECURSIVE SplitOn(_, _)
SplitOn(s, c) ==
    LET n == IndexOf(s, c, 1)
    IN  IF n = 0 THEN <<s>>
        ELSE <<SubSeq(s, 1, n - 1)>> \o SplitOn(SubSeq(s, n + 1, Len(s)), c)

IsPadding(c) == IsSpace(c) \/ c \in {"{", "}", "[", "]"}

RECURSIVE SkipPadding(_, _)
SkipPadding(s, i) ==
    IF i <= Len(s) /\ IsPadding(CharAt(s, i)) THEN SkipPadding(s, i + 1) ELSE i

RECURSIVE RSkipPadding(_, _)
RSkipPadding(s, i) ==
    IF i >= 1 /\ IsPadding(CharAt(s, i)) THEN RSkipPadding(s, i - 1) ELSE i

\* s without the white space, braces and brackets around it
Unpadded(s) ==
    LET a == SkipPadding(s, 1)
        b == RSkipPadding(s, Len(s))
    IN  IF a > b THEN "" ELSE SubSeq(s, a, b)

\* a member "key": value of a record is a match marker: the key is one of the match
\* keys and the value is true, "true" or 1
IsMatchMarker(member) ==
    LET c == IndexOf(member, ":", 1)
        key == Unpadded(SubSeq(member, 1, c - 1))
        value == Unpadded(SubSeq(member, c + 1, Len(member)))
    IN  /\ c > 0
        /\ key \in {"\"match\"", "\"matched\"", "\"match_indicator\"", "\"matched_indicator\""}
        /\ value \in {"true", "\"true\"", "1"}

\* the match markers among the members of the records of a text (keys and values
\* free of commas), letter case ignored
StructuralMarkers(text) ==
    LET members == SplitOn(lower(text), ",")
    IN  Cardinality({i \in 1..Len(members) : IsMatchMarker(members[i])})

RECURSIVE SumMarkers(_)
SumMarkers(paths) ==
    IF paths = {} THEN 0
    ELSE LET n == CHOOSE x \in paths : TRUE
         IN  StructuralMarkers(files[n].text) + SumMarkers(paths \ {n})

(***************************************************************************)
(* C16 (as claimed): over readable record-oriented (.json) artifacts,      *)
(* count_hits_in_files gives as total exactly the number of structural     *)
(* match markers (a match key whose value is true, "true" or 1) in the     *)
(* texts; category keywords never change the total.                        *)
(***************************************************************************)
C16_RecordTotalIsMarkers ==
    (Counted /\ \A n \in DOMAIN files : IsRecord(n) /\ files[n].readable)
        => outcomes[1].hits_total = SumMarkers(DOMAIN files)

\* the files of the directory that are neither tabular nor record-oriented
OtherPaths == { n \in DOMAIN files : ~IsTabular(n) /\ ~IsRecord(n) }

(***************************************************************************)
(* C17: a file that is neither tabular nor record-oriented leaves the hit  *)
(* total unchanged, whatever its content: the total is that of the list    *)
(* without such files, and 0 when there are no others; only the category   *)
(* counts may grow.                                                        *)
(***************************************************************************)
C17_OtherFilesLeaveTotal ==
    Counted =>
        /\ outcomes[1].hits_total = count_hits_in_files(DOMAIN files \ OtherPaths)[1]
        /\ DOMAIN files = OtherPaths => outcomes[1].hits_total = 0
        /\ \A k \in HIT_KEYWORDS :
              SumType(DOMAIN files, k) >= SumType(DOMAIN files \ OtherPaths, k)

\* a text file that holds a match marker and keyword rows, next to a timeline: the total
\* is the timeline's two rows, the domain count grew by the two matches of the text file
C17_Witness ==
    /\ Counted /\ DOMAIN files = {"notes.txt", "timeline.csv"}
    /\ outcomes[1].hits_total = 2
    /\ outcomes[1].hit_types["domain"] = 3

\* the files of the directory that cannot be read
UnreadablePaths == { n \in DOMAIN files : ~files[n].readable }

CategoryCount(oc, k) == IF k \in DOMAIN oc.hit_types THEN oc.hit_types[k] ELSE 0

\* the count the report's block gives for category k (no line: 0)
Reported(k) == IF k \in DOMAIN summary[1].by_type THEN summary[1].by_type[k] ELSE 0

RECURSIVE CategorySum(_, _)
CategorySum(n, k) ==
    IF n = 0 THEN 0 ELSE CategorySum(n - 1, k) + CategoryCount(outcomes[n], k)

(***************************************************************************)
(* C19: the per-category block of the run report is the per-category sum   *)
(* of the category maps of all outcomes of the run, a category absent from *)
(* an outcome counting as 0, whatever the outcomes' statuses; the block    *)
(* holds no other category.                                                *)
(***************************************************************************)
C19_BlockIsSumOfOutcomes ==
    summary # <<>> =>
        /\ \A k \in HIT_KEYWORDS : Reported(k) = CategorySum(Len(outcomes), k)
        /\ DOMAIN summary[1].by_type \subseteq HIT_KEYWORDS

\* two modules, FAILED and CLEAN, each with artifacts counted: the block is their sum
C19_Witness ==
    /\ mode = "bymod" /\ pc = "done" /\ Len(outcomes) = 2
    /\ outcomes[1].status = "FAILED" /\ outcomes[2].status = "CLEAN"
    /\ outcomes[1].hit_types = [k \in {"domain", "file"} |-> IF k = "domain" THEN 1 ELSE 2]
    /\ outcomes[2].hit_types = [k \in {"domain", "file"} |-> IF k = "domain" THEN 1 ELSE 2]
    /\ summary[1].by_type = [k \in {"domain", "file"} |-> IF k = "domain" THEN 2 ELSE 4]

(***************************************************************************)
(* C20 (as claimed): in module-by-module mode an artifact file written     *)
(* during one module's check is counted in that module's outcome only: in  *)
(* a run of two modules where only the first wrote artifacts, the second   *)
(* outcome counts nothing and the report's block is the first outcome's    *)
(* category map.                                                           *)
(***************************************************************************)
C20_ArtifactCountedForOneModule ==
    (/\ mode = "bymod" /\ Len(outcomes) = 2
     /\ files # <<>>
     /\ \A n \in DOMAIN files : files[n].writer = 1)
        => /\ outcomes[2].hits_total = 0
           /\ outcomes[2].hit_types = <<>>
           /\ summary # <<>> => summary[1].by_type = outcomes[1].hit_types

(***************************************************************************)
(* C21 (as claimed): every recorded ModuleOutcome whose status is CLEAN    *)
(* has hit total 0: CLEAN is reported only when no indicator matched in    *)
(* the artifacts parsed for that check.                                    *)
(***************************************************************************)
C21_CleanHasNoHits ==
    \A i \in 1..Len(outcomes) :
        outcomes[i].status = "CLEAN" => outcomes[i].hits_total = 0

(***************************************************************************)
(* C22 (as claimed): each run owns its output directory: two runs never    *)
(* write artifacts and summary.txt into the same directory, also when both *)
(* start within the same clock second.                                     *)
(***************************************************************************)
C22_RunOwnsDirectory ==
    /\ \A d \in DOMAIN dirs : \A w1, w2 \in dirs[d] : w1[1] = w2[1]
    /\ (outdir[1] # -1 /\ outdir[2] # -1) => outdir[1] # outdir[2]

(***************************************************************************)
(* C23: in module-by-module mode the first scanner invocation of every     *)
(* module is preceded by a transport reset, and the window start (before)  *)
(* of the module is taken after that reset and before that invocation; the *)
(* retry does not take it again, so the files the first (busy) attempt     *)
(* wrote are still inside the module's window when the files are counted.  *)
(***************************************************************************)
C23_ResetAndWindowPerModule ==
    /\ [][(pc' = "bm_invoke" /\ pc # "bm_invoke")
            => /\ pc = "bm_reset"
               /\ \E t \in QuickResetTimes : now' = now + t
               /\ before' = now'
               /\ attempts' = <<>>]_vars
    /\ [][(pc = "bm_invoke" /\ pc' # "bm_invoke")
            => /\ attempts = <<>> /\ Len(attempts') = 1
               /\ before' = before /\ before = now /\ now' > before]_vars
    /\ [][pc = "bm_busy" => before' = before]_vars
    /\ [](pc = "bm_collect"
            => \A n \in DOMAIN files :
                  files[n].writer = idx => n \in new_files_since(before))

\* a retried check whose first attempt wrote the files, more than the tolerance before
\* the retry's invocation began, and whose retry wrote none: they are in the window
C23_Witness ==
    /\ mode = "bymod" /\ pc = "bm_collect" /\ adb /\ Len(attempts) = 2
    /\ "command.log" \in DOMAIN files
    /\ files["command.log"].writer = idx
    /\ files["command.log"].mtime < now - 1 - MTIME_TOLERANCE
    /\ "command.log" \in new_files_since(before)

(***************************************************************************)
(* C24: module checks are strictly sequential.  A step makes at most one   *)
(* scanner invocation, and an invocation for module k is made only when    *)
(* the outcomes of the k-1 modules before it are appended; an outcome is   *)
(* appended only after the module's last invocation, with the status,      *)
(* reason and definition count classified from that invocation's text and  *)
(* the hits of the files collected for the module; the loop moves to       *)
(* module k+1 only with the outcome of module k appended.                  *)
(***************************************************************************)
C24_ChecksAreSequential ==
    /\ [][attempts' # attempts
            => (attempts' = <<>> \/ Len(attempts') = Len(attempts) + 1)]_vars
    /\ [][(mode = "bymod" /\ Len(attempts') = Len(attempts) + 1)
            => /\ pc \in {"bm_invoke", "bm_busy"}
               /\ Len(outcomes) = idx - 1
               /\ outcomes' = outcomes]_vars
    /\ [][(mode = "bymod" /\ outcomes' # outcomes)
            => /\ pc = "bm_collect"
               /\ attempts # <<>> /\ attempts' = attempts
               /\ Len(outcomes') = Len(outcomes) + 1
               /\ outcomes'[idx].module = mods[idx]
               /\ outcomes'[idx].status = Scanned[attempts[Len(attempts)][2]][2]
               /\ outcomes'[idx].reason = Scanned[attempts[Len(attempts)][2]][3]
               /\ outcomes'[idx].defs = Scanned[attempts[Len(attempts)][2]][1]
               /\ outcomes'[idx].hits_total
                     = count_hits_in_files(new_files_since(before))[1]]_vars
    /\ [][(mode = "bymod" /\ idx >= 1 /\ idx' # idx)
            => (idx' = idx + 1 /\ Len(outcomes') = idx)]_vars

\* the first invocation of the second module has been made: the first outcome is there
C24_Witness ==
    /\ mode = "bymod" /\ pc = "bm_busy" /\ idx = 2
    /\ Len(attempts) = 1
    /\ Len(outcomes) = 1 /\ outcomes[1].module = mods[1]

\* the shell probes adb_ensure_ready has run, in order: one per reset-and-probe cycle
ProbeResults ==
    LET IsProbe(c) == c[1] = "shell echo ok"
        probes == SelectSeq(cmds, IsProbe)
    IN  [i \in 1..Len(probes) |-> probes[i][2]]

ResetCount ==
    LET IsReset(c) == c[1] = "kill-server"
    IN  Len(SelectSeq(cmds, IsReset))

\* C25: adb_ensure_ready(max_attempts) performs at most max_attempts reset-and-probe
\* cycles; a probe that exits 0 ends it with True and no further cycle; it returns
\* False after max_attempts failed probes; and it returns False without running any
\* command when the adb binary is not found.
C25_EnsureReadyCycles ==
    LET cycles == Len(ProbeResults) IN
    /\ cycles <= er_max
    /\ ResetCount = cycles
    /\ \A i \in 1..cycles : ProbeResults[i] = 0 => i = cycles
    /\ pc # "er_done" => ready = "uncalled"
    /\ pc = "er_done" =>
        /\ ready \in {"true", "false"}
        /\ ~adb => ready = "false" /\ cmds = <<>>
        /\ ready = "true" <=> (cycles > 0 /\ ProbeResults[cycles] = 0)
        /\ (adb /\ ready = "false") =>
              /\ cycles = er_max
              /\ \A i \in 1..cycles : ProbeResults[i] # 0

\* the second of three allowed cycles succeeds
C25_Witness ==
    /\ pc = "er_done" /\ adb /\ er_max = 3
    /\ Len(ProbeResults) = 2 /\ ProbeResults[1] # 0 /\ ProbeResults[2] = 0
    /\ ready = "true"

====
